---- MODULE Spec2Model ----
(***************************************************************************)
(* The Element document model of packages/model/src/element.ts.            *)
(*                                                                         *)
(* JavaScript objects are references, so the model keeps a heap: `nodes`   *)
(* maps an object id to a Node instance (an Element or a Text leaf) and    *)
(* `maps` maps an object id to a plain style object.  An Element's         *)
(* `children` is a sequence of node ids and its `style` is a map id, which *)
(* is what lets aliasing between the caller's objects and the tree's       *)
(* objects be observed.  Objects no variable can reach are dropped, as the *)
(* garbage collector does.                                                 *)
(***************************************************************************)
EXTENDS Integers, Sequences, FiniteSets, TLC

\* Caller-supplied keys are 1..NumKeys; generated keys are above NumKeys.
NumKeys == 2
\* An action that grows the heap is taken only below this many live nodes.
MaxNodes == 4
\* Offsets handed to insert and split range over -MaxOffset..MaxOffset.
MaxOffset == 2
\* Most nodes handed to one insert call.
MaxArgs == 2

\* An absent reference, an undefined key, an undefined parent.
Null == 0
\* An undefined `type` in a descriptor.
Undefined == "undefined"
DATA_TYPE_ELEMENT == "element"
DATA_TYPE_TEXT == "text"

CallerKeys == 1..NumKeys
Offsets == (0 - MaxOffset)..MaxOffset
Texts == {"", "x"}
StyleNames == {"color", "width"}
StyleValues == {1, 2}
\* Every style object: a map from some property names to values.
StyleMaps == UNION {[d -> StyleValues] : d \in SUBSET StyleNames}
EmptyMap == [n \in {} |-> 1]

VARIABLES
    nodes,  \* heap of Node instances: id -> [cls, type, key, parent, style, children, text]
    maps,   \* heap of plain style objects: id -> [name -> value]
    E,      \* the caller's reference to the root Element
    m,      \* a style object reference the caller holds (Null when none)
    op,     \* name of the last operation called
    tgt,    \* the Element it was called on (Null for caller-side steps)
    arg,    \* its plain argument (an offset, a key, a set of keys, ...)
    args,   \* the nodes it was handed, as references into `before`
    ret,    \* the node references it returned
    val,    \* the plain value it returned
    before, \* the tree under E and the arguments as they were when it was called
    style0, \* contents the caller last gave to, or got from, E's style accessors
    hist    \* whether the last call and the tree before it are kept on record

vars == <<nodes, maps, E, m, op, tgt, arg, args, ret, val, before, style0, hist>>

Heap == [nodes |-> nodes, maps |-> maps]

----------------------------------------------------------------------------
\* Helpers on sequences and ids.

Range(s) == {s[i] : i \in 1..Len(s)}

Min(S) == CHOOSE x \in S : \A y \in S : x <= y

\* The id `new` gives the next allocated object: both heaps are sequences.
FreshId(heap) == Len(heap) + 1

\* Array.prototype.findIndex(child => child.getKey() === key), 1-based; 0 when absent.
FindIndex(H, ids, key) ==
    IF \E i \in 1..Len(ids) : H.nodes[ids[i]].key = key
    THEN Min({i \in 1..Len(ids) : H.nodes[ids[i]].key = key})
    ELSE 0

\* Array.prototype.splice(start, 0, ...items): a negative start counts from the
\* end, and the start is then clamped to [0, length].
SpliceStart(len, start) ==
    IF start < 0
    THEN (IF len + start < 0 THEN 0 ELSE len + start)
    ELSE (IF start > len THEN len ELSE start)

SpliceInsert(s, start, items) ==
    LET at == SpliceStart(Len(s), start)
    IN SubSeq(s, 1, at) \o items \o SubSeq(s, at + 1, Len(s))

\* Array.prototype.splice(index, 1) for an index in range (1-based here).
SpliceRemove(s, i) == SubSeq(s, 1, i - 1) \o SubSeq(s, i + 1, Len(s))

----------------------------------------------------------------------------
\* The Node base class and the Text leaf (node.ts, text.ts).

\* The key source: a key no node of the document carries.
GenerateKey(H) ==
    LET used == {H.nodes[i].key : i \in 1..Len(H.nodes)}
    IN Min(((NumKeys + 1)..(NumKeys + Len(H.nodes) + 1)) \ used)

\* Node's constructor: the key (generated when absent), the parent, the type.
NodeFields(H, options) ==
    [type     |-> options.type,
     key      |-> IF options.key = Null THEN GenerateKey(H) ELSE options.key,
     parent   |-> options.parent]

\* Node.toJSON(): a fresh plain object with the node's key, type and parent.
NodeToJSON(n) ==
    [type |-> n.type, key |-> n.key, parent |-> n.parent,
     text |-> n.text, children |-> <<>>, size |-> 0]

\* new Text(options)
NewText(H, options) ==
    LET id == FreshId(H.nodes)
        base == NodeFields(H, options)
    IN [H  |-> [H EXCEPT !.nodes = Append(@, [cls |-> "Text", type |-> base.type,
                                              key |-> base.key, parent |-> base.parent,
                                              style |-> Null, children |-> <<>>,
                                              text |-> options.text])],
        id |-> id]

----------------------------------------------------------------------------
\* Element.

IsElement(H, id) == H.nodes[id].cls = "Element"

IsElementObject(nodeObj) == nodeObj.type # DATA_TYPE_TEXT

RECURSIVE NewElement(_, _)
RECURSIVE CreateChildNodes(_, _, _)

\* Node.create: an Element unless the descriptor carries the text tag.
NodeCreate(H, options) ==
    IF IsElementObject(options) THEN NewElement(H, options) ELSE NewText(H, options)

CreateChildNode(H, options) == NodeCreate(H, options)

RECURSIVE CreateChildNodesUnstamped(_, _, _)
\* (options.children || []).map(child => createChildNode(child)): the children
\* keep the parent key their descriptors came with.
CreateChildNodesUnstamped(H, descs, key) ==
    IF descs = <<>>
    THEN [H |-> H, ids |-> <<>>]
    ELSE LET first == CreateChildNode(H, Head(descs))
             rest == CreateChildNodesUnstamped(first.H, Tail(descs), key)
         IN [H |-> rest.H, ids |-> <<first.id>> \o rest.ids]

\* (options.children || []).map(child => { child.parent = key; return createChildNode(child) })
CreateChildNodes(H, descs, key) ==
    IF descs = <<>>
    THEN [H |-> H, ids |-> <<>>]
    ELSE LET first == CreateChildNode(H, [Head(descs) EXCEPT !.parent = key])
             rest == CreateChildNodes(first.H, Tail(descs), key)
         IN [H |-> rest.H, ids |-> <<first.id>> \o rest.ids]

\* new Element(options): the style field starts as a fresh {} whatever the
\* descriptor holds; the children are built in descriptor order.
NewElement(H, options) ==
    LET id == FreshId(H.nodes)
        mid == FreshId(H.maps)
        base == NodeFields(H, [options EXCEPT
                    !.type = IF @ = Undefined THEN DATA_TYPE_ELEMENT ELSE @])
        H1 == [nodes |-> Append(H.nodes, [cls |-> "Element", type |-> base.type,
                                          key |-> base.key, parent |-> base.parent,
                                          style |-> mid, children |-> <<>>,
                                          text |-> ""]),
               maps  |-> Append(H.maps, EmptyMap)]
        built == CreateChildNodes(H1, options.children, base.key)
    IN [H  |-> [built.H EXCEPT !.nodes[id].children = built.ids],
        id |-> id]

ElementCreate(H, options) == NewElement(H, options)

GetChildrenSize(H, id) == Len(H.nodes[id].children)

GetChildrenKeys(H, id) ==
    [i \in 1..Len(H.nodes[id].children) |-> H.nodes[H.nodes[id].children[i]].key]

RECURSIVE ToJSON(_, _)

\* Element.toJSON(includeChild)
ElementToJSON(H, id, includeChild) ==
    LET n == H.nodes[id]
        json == NodeToJSON(n)
    IN [json EXCEPT
          !.children = IF includeChild
                       THEN [i \in 1..Len(n.children) |-> ToJSON(H, n.children[i])]
                       ELSE <<>>,
          !.size = GetChildrenSize(H, id)]

\* child.toJSON(): the method of the child's own class, with its default argument.
ToJSON(H, id) ==
    IF IsElement(H, id) THEN ElementToJSON(H, id, TRUE) ELSE NodeToJSON(H.nodes[id])

\* appendChild that stores the caller's node itself: child.setParentKey(key);
\* this.children.push(child)
AppendChildStoresChild(H, id, child) ==
    [H EXCEPT !.nodes[child].parent = H.nodes[id].key,
              !.nodes[id].children = Append(H.nodes[id].children, child)]

\* this.children.push(createChildNode({...child.toJSON(), parent: this.getKey()}))
AppendChild(H, id, child) ==
    LET made == CreateChildNode(H, [ToJSON(H, child) EXCEPT !.parent = H.nodes[id].key])
    IN [made.H EXCEPT !.nodes[id].children = Append(@, made.id)]

\* removeChild that filters out every child with the key.
RemoveChildFilters(H, id, key) ==
    LET keep == {i \in 1..Len(H.nodes[id].children) :
                    H.nodes[H.nodes[id].children[i]].key # key}
        Kept[i \in 0..Len(H.nodes[id].children)] ==
            IF i = 0 THEN <<>>
            ELSE IF i \in keep THEN Append(Kept[i - 1], H.nodes[id].children[i])
                 ELSE Kept[i - 1]
    IN [H EXCEPT !.nodes[id].children = Kept[Len(H.nodes[id].children)]]

\* removeChild(key): the first child with the key is spliced out; none, no change.
RemoveChild(H, id, key) ==
    LET index == FindIndex(H, H.nodes[id].children, key)
    IN IF index = 0
       THEN H
       ELSE [H EXCEPT !.nodes[id].children = SpliceRemove(@, index)]

HasChild(H, id, key) == \E i \in 1..Len(H.nodes[id].children) :
                            H.nodes[H.nodes[id].children[i]].key = key

\* first(): the first child, or null when there is none.
First(H, id) ==
    IF Len(H.nodes[id].children) > 0 THEN H.nodes[id].children[1] ELSE Null

IndexOf(H, id, key) == FindIndex(H, H.nodes[id].children, key) - 1

RECURSIVE CopyChildNodes(_, _, _)
\* child.map(c => createChildNode({...c.toJSON(), parent: this.getKey()}))
CopyChildNodes(H, id, childs) ==
    IF childs = <<>>
    THEN [H |-> H, ids |-> <<>>]
    ELSE LET first == CreateChildNode(H, [ToJSON(H, Head(childs)) EXCEPT
                                             !.parent = H.nodes[id].key])
             rest == CopyChildNodes(first.H, id, Tail(childs))
         IN [H |-> rest.H, ids |-> <<first.id>> \o rest.ids]

RECURSIVE RebuildChildNodes(_, _)
\* child.map(c => createChildNode(c.toJSON())): the parent is not overwritten.
RebuildChildNodes(H, childs) ==
    IF childs = <<>>
    THEN [H |-> H, ids |-> <<>>]
    ELSE LET first == CreateChildNode(H, ToJSON(H, Head(childs)))
             rest == RebuildChildNodes(first.H, Tail(childs))
         IN [H |-> rest.H, ids |-> <<first.id>> \o rest.ids]

\* insert that leaves the copies with the parent key their originals had.
InsertKeepsParent(H, id, index, childs) ==
    LET made == RebuildChildNodes(H, childs)
    IN [made.H EXCEPT !.nodes[id].children = SpliceInsert(@, index, made.ids)]

\* insert that clamps its index to [0, size] before splicing, as split does.
InsertClamps(H, id, index, childs) ==
    LET made == CopyChildNodes(H, id, childs)
        size == GetChildrenSize(H, id)
        at == IF index < 0 THEN 0 ELSE IF index > size THEN size ELSE index
    IN [made.H EXCEPT !.nodes[id].children = SpliceInsert(@, at, made.ids)]

\* insert(index, ...child): this.children.splice(index, 0, ...copies)
Insert(H, id, index, childs) ==
    LET made == CopyChildNodes(H, id, childs)
    IN [made.H EXCEPT !.nodes[id].children = SpliceInsert(@, index, made.ids)]

RECURSIVE AppendAll(_, _, _)
\* list.forEach(child => clone.appendChild(child))
AppendAll(H, id, list) ==
    IF list = <<>> THEN H ELSE AppendAll(AppendChild(H, id, Head(list)), id, Tail(list))

\* split with the right part sliced one place late.
SplitSlicesLate(H, id, offset) ==
    LET size == GetChildrenSize(H, id)
        off == IF offset < 0 THEN 0 ELSE IF offset > size THEN size ELSE offset
        left == SubSeq(H.nodes[id].children, 1, off)
        right == SubSeq(H.nodes[id].children, off + 2, size)
        json == ElementToJSON(H, id, FALSE)
        cloneLeft == ElementCreate(H, json)
        H1 == AppendAll(cloneLeft.H, cloneLeft.id, left)
        cloneRight == ElementCreate(H1, [json EXCEPT !.key = Null])
        H2 == AppendAll(cloneRight.H, cloneRight.id, right)
    IN [H |-> H2, ids |-> <<cloneLeft.id, cloneRight.id>>]

\* split with the right clone built from the same descriptor as the left one.
SplitKeepsKey(H, id, offset) ==
    LET size == GetChildrenSize(H, id)
        off == IF offset < 0 THEN 0 ELSE IF offset > size THEN size ELSE offset
        left == SubSeq(H.nodes[id].children, 1, off)
        right == SubSeq(H.nodes[id].children, off + 1, size)
        json == ElementToJSON(H, id, FALSE)
        cloneLeft == ElementCreate(H, json)
        H1 == AppendAll(cloneLeft.H, cloneLeft.id, left)
        cloneRight == ElementCreate(H1, json)
        H2 == AppendAll(cloneRight.H, cloneRight.id, right)
    IN [H |-> H2, ids |-> <<cloneLeft.id, cloneRight.id>>]

RECURSIVE MoveAll(_, _, _)
\* list.forEach(child => { child.setParentKey(key); clone.children.push(child) })
MoveAll(H, id, list) ==
    IF list = <<>>
    THEN H
    ELSE MoveAll([H EXCEPT !.nodes[Head(list)].parent = H.nodes[id].key,
                           !.nodes[id].children = Append(@, Head(list))],
                 id, Tail(list))

\* split that moves the children themselves into the two clones.
SplitMovesChildren(H, id, offset) ==
    LET size == GetChildrenSize(H, id)
        off == IF offset < 0 THEN 0 ELSE IF offset > size THEN size ELSE offset
        left == SubSeq(H.nodes[id].children, 1, off)
        right == SubSeq(H.nodes[id].children, off + 1, size)
        json == ElementToJSON(H, id, FALSE)
        cloneLeft == ElementCreate(H, json)
        H1 == MoveAll(cloneLeft.H, cloneLeft.id, left)
        cloneRight == ElementCreate(H1, [json EXCEPT !.key = Null])
        H2 == MoveAll(cloneRight.H, cloneRight.id, right)
    IN [H |-> H2, ids |-> <<cloneLeft.id, cloneRight.id>>]

\* split(offset): the offset is clamped to [0, size]; the two clones are built
\* from toJSON(false), the right one with its key cleared.
Split(H, id, offset) ==
    LET size == GetChildrenSize(H, id)
        off == IF offset < 0 THEN 0 ELSE IF offset > size THEN size ELSE offset
        left == SubSeq(H.nodes[id].children, 1, off)
        right == SubSeq(H.nodes[id].children, off + 1, size)
        json == ElementToJSON(H, id, FALSE)
        cloneLeft == ElementCreate(H, json)
        H1 == AppendAll(cloneLeft.H, cloneLeft.id, left)
        cloneRight == ElementCreate(H1, [json EXCEPT !.key = Null])
        H2 == AppendAll(cloneRight.H, cloneRight.id, right)
    IN [H |-> H2, ids |-> <<cloneLeft.id, cloneRight.id>>]

\* empty()
Empty(H, id) == [H EXCEPT !.nodes[id].children = <<>>]

\* Text.isEmpty(): a leaf without text.
TextIsEmpty(H, id) == H.nodes[id].text = ""

\* isEmpty that looks at the length of the children only.
IsEmptyShallow(H, id) ==
    IF ~IsElement(H, id)
    THEN TextIsEmpty(H, id)
    ELSE Len(H.nodes[id].children) = 0

RECURSIVE IsEmpty(_, _)
\* isEmpty(): no children, or every child empty by the child's own isEmpty.
IsEmpty(H, id) ==
    IF ~IsElement(H, id)
    THEN TextIsEmpty(H, id)
    ELSE IF Len(H.nodes[id].children) = 0
         THEN TRUE
         ELSE \A i \in 1..Len(H.nodes[id].children) : IsEmpty(H, H.nodes[id].children[i])

RECURSIVE ContainsFrom(_, _, _, _)
RECURSIVE Contains(_, _, _)

\* contains that looks at the Element's own children only.
ContainsChildOnly(H, id, keys) ==
    \E i \in 1..Len(H.nodes[id].children) : H.nodes[H.nodes[id].children[i]].key \in keys

\* The loop of contains over the children from position i on.
ContainsFrom(H, id, keys, i) ==
    IF i > Len(H.nodes[id].children)
    THEN FALSE
    ELSE LET child == H.nodes[id].children[i]
         IN IF H.nodes[child].key \in keys
            THEN TRUE
            ELSE IF IsElement(H, child) /\ Contains(H, child, keys)
                 THEN TRUE
                 ELSE ContainsFrom(H, id, keys, i + 1)

\* contains(...keys)
Contains(H, id, keys) == IF keys = {} THEN FALSE ELSE ContainsFrom(H, id, keys, 1)

\* The callbacks handed to matches.
Predicates == {"isText", "isElement", "hasKey1", "any"}

Callback(p, n) ==
    CASE p = "isText" -> n.cls = "Text"
      [] p = "isElement" -> n.cls = "Element"
      [] p = "hasKey1" -> n.key = 1
      [] OTHER -> TRUE

RECURSIVE MatchesFromElse(_, _, _, _)
\* The loop of matches with `else if`: a child that matched is not searched.
MatchesFromElse(H, id, p, i) ==
    IF i > Len(H.nodes[id].children)
    THEN <<>>
    ELSE LET child == H.nodes[id].children[i]
         IN (IF Callback(p, H.nodes[child])
             THEN <<child>>
             ELSE IF IsElement(H, child) THEN MatchesFromElse(H, child, p, 1) ELSE <<>>)
            \o MatchesFromElse(H, id, p, i + 1)

MatchesSkipsMatched(H, id, p) == MatchesFromElse(H, id, p, 1)

RECURSIVE MatchesFrom(_, _, _, _)
\* The loop of matches over the children from position i on.
MatchesFrom(H, id, p, i) ==
    IF i > Len(H.nodes[id].children)
    THEN <<>>
    ELSE LET child == H.nodes[id].children[i]
         IN (IF Callback(p, H.nodes[child]) THEN <<child>> ELSE <<>>)
            \o (IF IsElement(H, child) THEN MatchesFrom(H, child, p, 1) ELSE <<>>)
            \o MatchesFrom(H, id, p, i + 1)

\* matches(callback)
Matches(H, id, p) == MatchesFrom(H, id, p, 1)

\* getStyle that returns the style field itself.
GetStyleReturnsField(H, id) == [H |-> H, id |-> H.nodes[id].style]

\* getStyle(): Object.assign({}, this.style), a new object with the same entries.
GetStyle(H, id) ==
    LET mid == FreshId(H.maps)
    IN [H |-> [H EXCEPT !.maps = Append(@, H.maps[H.nodes[id].style])], id |-> mid]

\* setStyle(style): this.style = Object.assign({}, style)
SetStyle(H, id, style) ==
    LET mid == FreshId(H.maps)
    IN [H EXCEPT !.maps = Append(@, H.maps[style]), !.nodes[id].style = mid]

\* Node.compare: the types agree.
NodeCompare(H, a, b) == H.nodes[a].type = H.nodes[b].type

RECURSIVE Compare(_, _, _)

\* compare that matches the children by position: this.children[i] against
\* children[i].
ElementComparePositional(H, id, node) ==
    IF ~IsElement(H, node) THEN FALSE
    ELSE IF ~NodeCompare(H, id, node) THEN FALSE
    ELSE LET got == GetStyle(H, node)
         IN IF H.maps[H.nodes[id].style] # got.H.maps[got.id] THEN FALSE
            ELSE LET children == H.nodes[node].children
                 IN IF Len(children) # Len(H.nodes[id].children) THEN FALSE
                    ELSE \A i \in 1..Len(H.nodes[id].children) :
                            Compare(H, H.nodes[id].children[i], children[i])

\* compare without the check of the children counts.
ElementCompareAnyCount(H, id, node) ==
    IF ~IsElement(H, node) THEN FALSE
    ELSE IF ~NodeCompare(H, id, node) THEN FALSE
    ELSE LET got == GetStyle(H, node)
         IN IF H.maps[H.nodes[id].style] # got.H.maps[got.id] THEN FALSE
            ELSE LET children == H.nodes[node].children
                 IN \A i \in 1..Len(H.nodes[id].children) :
                       LET child == H.nodes[id].children[i]
                           index == FindIndex(H, children, H.nodes[child].key)
                       IN index # 0 /\ Compare(H, child, children[index])

\* Element.compare(node)
ElementCompare(H, id, node) ==
    IF ~IsElement(H, node) THEN FALSE
    ELSE IF ~NodeCompare(H, id, node) THEN FALSE
    ELSE LET got == GetStyle(H, node)
         IN IF H.maps[H.nodes[id].style] # got.H.maps[got.id] THEN FALSE
            ELSE LET children == H.nodes[node].children
                 IN IF Len(children) # Len(H.nodes[id].children) THEN FALSE
                    ELSE \A i \in 1..Len(H.nodes[id].children) :
                            LET child == H.nodes[id].children[i]
                                index == FindIndex(H, children, H.nodes[child].key)
                            IN index # 0 /\ Compare(H, child, children[index])

\* Text.compare: the base comparison and the same text.
TextCompare(H, id, node) ==
    /\ ~IsElement(H, node)
    /\ NodeCompare(H, id, node)
    /\ H.nodes[id].text = H.nodes[node].text

\* a.compare(b): the method of a's class.
Compare(H, a, b) ==
    IF IsElement(H, a) THEN ElementCompare(H, a, b) ELSE TextCompare(H, a, b)

\* clone(deep, copyKey)
Clone(H, id, deep, copyKey) ==
    LET json == ElementToJSON(H, id, deep)
        newJson == [json EXCEPT !.key = IF copyKey = FALSE THEN Null ELSE json.key]
    IN ElementCreate(H, newJson)

----------------------------------------------------------------------------
\* Reachability and collection of unreachable objects.

RECURSIVE Subtree(_, _)
\* The node `id` and every node below it.
Subtree(H, id) ==
    {id} \cup UNION {Subtree(H, H.nodes[id].children[i]) :
                        i \in 1..Len(H.nodes[id].children)}

Descendants(H, id) == Subtree(H, id) \ {id}

ElementsOf(H, id) == {x \in Subtree(H, id) : IsElement(H, x)}

RECURSIVE Visit(_, _, _)
\* The nodes reachable from the references in `stack`, each once, in the order a
\* depth-first walk first meets them.
Visit(H, stack, acc) ==
    IF stack = <<>>
    THEN acc
    ELSE LET x == Head(stack)
         IN IF x = Null \/ x \in Range(acc)
            THEN Visit(H, Tail(stack), acc)
            ELSE Visit(H, H.nodes[x].children \o Tail(stack), Append(acc, x))

RECURSIVE Distinct(_, _)
\* The sequence s without Null and without repeats, first occurrences kept.
Distinct(s, acc) ==
    IF s = <<>>
    THEN acc
    ELSE IF Head(s) = Null \/ Head(s) \in Range(acc)
         THEN Distinct(Tail(s), acc)
         ELSE Distinct(Tail(s), Append(acc, Head(s)))

\* Position of x in the sequence s of distinct values; Null stays Null.
IndexIn(s, x) == IF x = Null THEN Null ELSE CHOOSE i \in 1..Len(s) : s[i] = x

\* The heap restricted to what the given references reach.  Object identities are
\* not observable as numbers, so the live objects are renumbered in the order a
\* walk from the references meets them: `nodeAt` and `mapAt` give the new ids.
Collect(H, nodeRoots, mapRoots) ==
    LET live == Visit(H, nodeRoots, <<>>)
        liveMaps == Distinct([i \in 1..Len(live) |-> H.nodes[live[i]].style] \o mapRoots,
                             <<>>)
    IN [nodes |-> [i \in 1..Len(live) |->
                      [H.nodes[live[i]] EXCEPT
                          !.children = [j \in 1..Len(@) |-> IndexIn(live, @[j])],
                          !.style = IndexIn(liveMaps, @)]],
        maps  |-> [i \in 1..Len(liveMaps) |-> H.maps[liveMaps[i]]],
        nodeAt |-> [x \in Range(live) \cup {Null} |-> IndexIn(live, x)],
        mapAt  |-> [x \in Range(liveMaps) \cup {Null} |-> IndexIn(liveMaps, x)]]

----------------------------------------------------------------------------
\* The state machine.

\* A descriptor the caller writes.
Options(type, key, text) ==
    [type |-> type, key |-> key, parent |-> Null, text |-> text,
     children |-> <<>>, size |-> 0]

\* The nodes a caller hands to appendChild and insert: one it has just made from
\* a descriptor, or one it found in the tree.
Descriptors ==
    {Options(DATA_TYPE_TEXT, k, "x") : k \in CallerKeys}
        \cup {Options(Undefined, k, "") : k \in CallerKeys}

\* The descriptors of whole Elements a caller builds with Element.create: up to
\* MaxArgs children, each a leaf, an Element without children or an Element with
\* one leaf.
NestedDescriptors ==
    Descriptors \cup
        {[d EXCEPT !.children = <<l>>] :
            d \in {x \in Descriptors : IsElementObject(x)},
            l \in {x \in Descriptors : ~IsElementObject(x)}}

\* The same with leaves of every text, the empty one included.
TextDescriptors == {Options(DATA_TYPE_TEXT, k, s) : k \in CallerKeys, s \in Texts}

TreeDescriptors ==
    LET elements == {x \in Descriptors : IsElementObject(x)}
        nested == TextDescriptors \cup elements
                    \cup {[d EXCEPT !.children = <<l>>] : d \in elements, l \in TextDescriptors}
    IN {[Options(Undefined, Null, "") EXCEPT !.children = cs] :
           cs \in UNION {[1..n -> nested] : n \in 0..MaxArgs}}

ElementDescriptors ==
    {[Options(Undefined, Null, "") EXCEPT !.children = cs] :
        cs \in UNION {[1..n -> NestedDescriptors] : n \in 0..MaxArgs}}

Choices ==
    [new : {TRUE}, desc : Descriptors, id : {Null}]
        \cup [new : {FALSE}, desc : {Options(Undefined, Null, "")}, id : Subtree(Heap, E)]

\* How many nodes a copy of the chosen node adds to a tree.
ChoiceSize(ch) == IF ch.new THEN 1 ELSE Cardinality(Subtree(Heap, ch.id))

RECURSIVE Materialize(_, _)
\* The caller's arguments as objects: the new ones are constructed first.
Materialize(H, choices) ==
    IF choices = <<>>
    THEN [H |-> H, ids |-> <<>>]
    ELSE LET ch == Head(choices)
             first == IF ch.new THEN NodeCreate(H, ch.desc) ELSE [H |-> H, id |-> ch.id]
             rest == Materialize(first.H, Tail(choices))
         IN [H |-> rest.H, ids |-> <<first.id>> \o rest.ids]

\* The state after a call made in heap H0 with the nodes xs that left heap H: the
\* caller's style object mm, the call (o on t with plain argument a), the node
\* references r and the plain value v it returned, and the style contents s last
\* seen through E.  The record of the call (op, tgt, arg, args, val, before) is
\* written only while `hist` is on; it is no part of the program's own state.
Commit(H0, xs, H, mm, o, t, a, r, v, s) ==
    LET K == Collect(H, <<E>> \o r, <<mm>>)
        B == Collect(H0, <<E>> \o xs, <<m>>)
    IN /\ nodes' = K.nodes
       /\ maps' = K.maps
       /\ E' = K.nodeAt[E]
       /\ m' = K.mapAt[mm]
       /\ ret' = [i \in 1..Len(r) |-> K.nodeAt[r[i]]]
       /\ style0' = s
       /\ hist' = hist
       /\ IF hist
          THEN /\ op' = o
               /\ tgt' = K.nodeAt[t]
               /\ arg' = a
               /\ args' = [i \in 1..Len(xs) |-> B.nodeAt[xs[i]]]
               /\ val' = v
               /\ before' = [nodes |-> B.nodes, maps |-> B.maps]
          ELSE UNCHANGED <<op, tgt, arg, args, val, before>>

Init ==
    LET made == ElementCreate([nodes |-> <<>>, maps |-> <<>>],
                              Options(Undefined, Null, ""))
    IN /\ nodes = made.H.nodes
       /\ maps = made.H.maps
       /\ E = made.id
       /\ m = Null
       /\ op = "create"
       /\ tgt = Null
       /\ arg = Null
       /\ args = <<>>
       /\ ret = <<made.id>>
       /\ val = FALSE
       /\ before = [nodes |-> <<>>, maps |-> <<>>]
       /\ style0 = EmptyMap
       /\ hist = TRUE

\* E = Element.create(d1) and a second Element, Element.create(d2), that the
\* caller holds next to it.
InitPair ==
    \E d1 \in ElementDescriptors, d2 \in ElementDescriptors :
        LET first == ElementCreate([nodes |-> <<>>, maps |-> <<>>], d1)
            second == ElementCreate(first.H, d2)
        IN /\ nodes = second.H.nodes
           /\ maps = second.H.maps
           /\ E = first.id
           /\ m = Null
           /\ op = "create"
           /\ tgt = Null
           /\ arg = Null
           /\ args = <<>>
           /\ ret = <<second.id>>
           /\ val = FALSE
           /\ before = [nodes |-> <<>>, maps |-> <<>>]
           /\ style0 = EmptyMap
           /\ hist = TRUE

\* E = Element.create(d) for a descriptor with children, empty leaves among them.
InitTree ==
    \E d \in TreeDescriptors :
        LET made == ElementCreate([nodes |-> <<>>, maps |-> <<>>], d)
        IN /\ nodes = made.H.nodes
           /\ maps = made.H.maps
           /\ E = made.id
           /\ m = Null
           /\ op = "create"
           /\ tgt = Null
           /\ arg = Null
           /\ args = <<>>
           /\ ret = <<made.id>>
           /\ val = FALSE
           /\ before = [nodes |-> <<>>, maps |-> <<>>]
           /\ style0 = EmptyMap
           /\ hist = TRUE

\* The same start with no record kept of the calls: the states are then the
\* program's own (the heap and the caller's references) and nothing else.
InitUnrecorded ==
    LET made == ElementCreate([nodes |-> <<>>, maps |-> <<>>],
                              Options(Undefined, Null, ""))
    IN /\ nodes = made.H.nodes
       /\ maps = made.H.maps
       /\ E = made.id
       /\ m = Null
       /\ op = "create"
       /\ tgt = Null
       /\ arg = Null
       /\ args = <<>>
       /\ ret = <<made.id>>
       /\ val = FALSE
       /\ before = [nodes |-> <<>>, maps |-> <<>>]
       /\ style0 = EmptyMap
       /\ hist = FALSE

\* Whether the tree under E may grow by n nodes.
Room(n) == Cardinality(Subtree(Heap, E)) + n <= MaxNodes

\* t.appendChild(x) on an Element t of the tree.
CallAppendChild ==
    \E t \in ElementsOf(Heap, E), x \in Choices :
        /\ Room(ChoiceSize(x))
        /\ LET made == Materialize(Heap, <<x>>)
           IN Commit(made.H, made.ids, AppendChild(made.H, t, made.ids[1]), m,
                     "appendChild", t, Null, <<>>, FALSE, style0)

\* t.insert(index, x1, .., xn)
CallInsert ==
    \E t \in ElementsOf(Heap, E), index \in Offsets, n \in 1..MaxArgs :
        /\ Room(n)
        /\ \E xs \in [1..n -> {x \in Choices : x.new}] :
              LET made == Materialize(Heap, xs)
              IN Commit(made.H, made.ids, Insert(made.H, t, index, made.ids), m,
                        "insert", t, index, <<>>, FALSE, style0)

\* t.removeChild(key)
CallRemoveChild ==
    \E t \in ElementsOf(Heap, E), key \in CallerKeys \cup {NumKeys + 1} :
        Commit(Heap, <<>>, RemoveChild(Heap, t, key), m, "removeChild", t, key, <<>>,
               FALSE, style0)

\* c = t.first(); t.removeChild(c.getKey()): the caller keeps c, the node it
\* took out of the tree.
CallTakeFirst ==
    \E t \in ElementsOf(Heap, E) :
        LET c == First(Heap, t)
        IN /\ c # Null
           /\ Commit(Heap, <<>>, RemoveChild(Heap, t, nodes[c].key), m, "takeFirst", t,
                     nodes[c].key, <<c>>, FALSE, style0)

\* t.empty()
CallEmpty ==
    \E t \in ElementsOf(Heap, E) :
        Commit(Heap, <<>>, Empty(Heap, t), m, "empty", t, Null, <<>>, FALSE, style0)

\* t.split(offset); the caller keeps the pair until its next call.
CallSplit ==
    \E t \in ElementsOf(Heap, E), offset \in Offsets :
        LET got == Split(Heap, t, offset)
        IN Commit(Heap, <<>>, got.H, m, "split", t, offset, got.ids, FALSE, style0)

\* t.contains(...keys)
CallContains ==
    \E t \in ElementsOf(Heap, E), keys \in SUBSET (CallerKeys \cup {NumKeys + 1}) :
        Commit(Heap, <<>>, Heap, m, "contains", t, keys, <<>>, Contains(Heap, t, keys),
               style0)

\* t.matches(callback)
CallMatches ==
    \E t \in ElementsOf(Heap, E), p \in Predicates :
        Commit(Heap, <<>>, Heap, m, "matches", t, p, Matches(Heap, t, p), FALSE, style0)

\* t.clone(deep, copyKey), and then clone.compare(t).
CallClone ==
    \E t \in ElementsOf(Heap, E), deep \in BOOLEAN, copyKey \in BOOLEAN :
        LET made == Clone(Heap, t, deep, copyKey)
        IN Commit(Heap, <<>>, made.H, m, "clone", t, <<deep, copyKey>>, <<made.id>>,
                  Compare(made.H, made.id, t), style0)

\* t.isEmpty()
CallIsEmpty ==
    \E t \in ElementsOf(Heap, E) :
        Commit(Heap, <<>>, Heap, m, "isEmpty", t, Null, <<>>, IsEmpty(Heap, t), style0)

\* t.compare(b) and b.compare(t) for an Element t of the tree and the node b the
\* caller holds, which it goes on holding.
CallCompare ==
    /\ Len(ret) = 1
    /\ \E t \in ElementsOf(Heap, E) :
          Commit(Heap, <<>>, Heap, m, "compare", t, Null, ret,
                 <<Compare(Heap, t, ret[1]), Compare(Heap, ret[1], t)>>, style0)

\* The caller writes a style object literal and keeps it.
CallNewMap ==
    \E content \in StyleMaps :
        Commit(Heap, <<>>, [Heap EXCEPT !.maps = Append(@, content)], FreshId(maps),
               "newMap", Null, content, <<>>, FALSE, style0)

\* The caller sets or deletes a property of the style object it holds.
CallMutateMap ==
    /\ m # Null
    /\ \/ \E n \in StyleNames, v \in StyleValues :
             Commit(Heap, <<>>,
                    [Heap EXCEPT !.maps[m] =
                        [x \in DOMAIN @ \cup {n} |-> IF x = n THEN v ELSE @[x]]],
                    m, "mutateMap", Null, <<n, v>>, <<>>, FALSE, style0)
       \/ \E n \in DOMAIN maps[m] :
             Commit(Heap, <<>>,
                    [Heap EXCEPT !.maps[m] = [x \in DOMAIN @ \ {n} |-> @[x]]],
                    m, "mutateMap", Null, <<n, Null>>, <<>>, FALSE, style0)

\* t.setStyle(m) with the style object the caller holds.
CallSetStyle ==
    /\ m # Null
    /\ \E t \in ElementsOf(Heap, E) :
          Commit(Heap, <<>>, SetStyle(Heap, t, m), m, "setStyle", t, maps[m], <<>>, FALSE,
                 IF t = E THEN maps[m] ELSE style0)

\* m = t.getStyle(): the caller keeps the object it is given.
CallGetStyle ==
    \E t \in ElementsOf(Heap, E) :
        LET got == GetStyle(Heap, t)
        IN Commit(Heap, <<>>, got.H, got.id, "getStyle", t, Null, <<>>, FALSE,
                  IF t = E THEN got.H.maps[got.id] ELSE style0)

Next ==
    \/ CallAppendChild
    \/ CallInsert
    \/ CallRemoveChild
    \/ CallTakeFirst
    \/ CallEmpty
    \/ CallIsEmpty
    \/ CallSplit
    \/ CallContains
    \/ CallMatches
    \/ CallClone
    \/ CallCompare
    \/ CallNewMap
    \/ CallMutateMap
    \/ CallSetStyle
    \/ CallGetStyle

\* Every call a caller can make, in any order.
Spec == Init /\ [][Next]_vars

\* The same program with the caller restricted to some of the calls.
NextSplit == CallAppendChild \/ CallSplit
SpecSplit == Init /\ [][NextSplit]_vars

NextInsert == CallAppendChild \/ CallInsert
SpecInsert == Init /\ [][NextInsert]_vars

NextOffsets == CallInsert \/ CallSplit
SpecOffsets == Init /\ [][NextOffsets]_vars

NextRemove == CallAppendChild \/ CallRemoveChild \/ CallEmpty
SpecRemove == Init /\ [][NextRemove]_vars

NextContains == CallAppendChild \/ CallContains
SpecContains == Init /\ [][NextContains]_vars

NextMatches == CallAppendChild \/ CallMatches
SpecMatches == Init /\ [][NextMatches]_vars

NextStyle == CallNewMap \/ CallMutateMap \/ CallSetStyle \/ CallGetStyle \/ CallClone
SpecStyle == Init /\ [][NextStyle]_vars

\* Two Elements built from descriptors and compared.
NextCompare == CallCompare
SpecCompare == InitPair /\ [][NextCompare]_vars

\* A tree with empty and non-empty leaves, changed and asked whether it is empty.
NextEmpty == CallAppendChild \/ CallRemoveChild \/ CallEmpty \/ CallIsEmpty
SpecEmpty == InitTree /\ [][NextEmpty]_vars

NextDetach == CallAppendChild \/ CallTakeFirst \/ CallEmpty
SpecDetach == Init /\ [][NextDetach]_vars

\* Every call that builds, changes or copies a tree, with no record of the calls.
NextLinks ==
    CallAppendChild \/ CallInsert \/ CallRemoveChild \/ CallEmpty \/ CallSplit \/ CallClone
SpecLinks == InitUnrecorded /\ [][NextLinks]_vars

----------------------------------------------------------------------------
\* What the checks below read off a heap.

RECURSIVE Snapshot(_, _)
\* Everything observable below a node: its class, type, key, parent key, text,
\* style entries and, in order, the same of its children.
Snapshot(H, id) ==
    LET n == H.nodes[id]
    IN [cls |-> n.cls, type |-> n.type, key |-> n.key, parent |-> n.parent,
        text |-> n.text,
        style |-> IF n.style = Null THEN EmptyMap ELSE H.maps[n.style],
        children |-> [i \in 1..Len(n.children) |-> Snapshot(H, n.children[i])]]

\* An offset clamped to [0, size].
Clamped(offset, size) == IF offset < 0 THEN 0 ELSE IF offset > size THEN size ELSE offset

----------------------------------------------------------------------------
\* C1: split(offset) returns [left, right] where, with o the offset clamped to
\* [0, size], left's keys are the first o keys of the Element, right's keys are
\* the remaining ones, in order; so the sizes add up and left's keys followed by
\* right's keys are the Element's keys.
C1_SplitPartitionsKeys ==
    op = "split" =>
        LET keys == GetChildrenKeys(before, tgt)
            size == Len(keys)
            o == Clamped(arg, size)
            leftKeys == GetChildrenKeys(Heap, ret[1])
            rightKeys == GetChildrenKeys(Heap, ret[2])
        IN /\ leftKeys = SubSeq(keys, 1, o)
           /\ rightKeys = SubSeq(keys, o + 1, size)
           /\ GetChildrenSize(Heap, ret[1]) + GetChildrenSize(Heap, ret[2])
                 = GetChildrenSize(before, tgt)
           /\ leftKeys \o rightKeys = keys
           /\ keys = GetChildrenKeys(Heap, tgt)

\* A split of three children after the first: one child left, two right.
C1_Witness ==
    /\ op = "split"
    /\ arg = 1
    /\ GetChildrenSize(before, tgt) = 3
    /\ GetChildrenSize(Heap, ret[1]) = 1
    /\ GetChildrenSize(Heap, ret[2]) = 2

\* C2: split returns a left Element with the key of the Element that was split
\* and a right Element with another key, one no node of the document carried.
C2_SplitKeys ==
    op = "split" =>
        /\ nodes[ret[1]].key = before.nodes[tgt].key
        /\ nodes[ret[2]].key # before.nodes[tgt].key
        /\ \A i \in 1..Len(before.nodes) : nodes[ret[2]].key # before.nodes[i].key

\* A split of a nested Element that carries a caller's key and has children.
C2_Witness ==
    /\ op = "split"
    /\ tgt # E
    /\ nodes[tgt].key \in CallerKeys
    /\ GetChildrenSize(Heap, tgt) > 0
    /\ nodes[ret[1]].key = nodes[tgt].key
    /\ nodes[ret[2]].key \notin CallerKeys

\* C3: split leaves the Element as it was: the whole tree (keys, parent keys,
\* styles, children in order, at every depth) is what it was before the call,
\* and none of its nodes is held by the returned Elements.
C3_SplitDoesNotMutate ==
    op = "split" =>
        /\ Snapshot(Heap, E) = Snapshot(before, E)
        /\ \A i \in 1..GetChildrenSize(Heap, tgt) :
              nodes[nodes[tgt].children[i]].parent = nodes[tgt].key
        /\ Subtree(Heap, E) \cap (Subtree(Heap, ret[1]) \cup Subtree(Heap, ret[2])) = {}

\* A split between the children of an Element one of whose children has a child.
C3_Witness ==
    /\ op = "split"
    /\ arg > 0
    /\ arg < GetChildrenSize(Heap, tgt)
    /\ \E i \in 1..GetChildrenSize(Heap, tgt) :
          GetChildrenSize(Heap, nodes[tgt].children[i]) > 0
    /\ GetChildrenSize(Heap, ret[1]) > 0
    /\ GetChildrenSize(Heap, ret[2]) > 0

\* The children of a node, each as a snapshot, in order.
ChildSnapshots(H, id) ==
    [i \in 1..Len(H.nodes[id].children) |-> Snapshot(H, H.nodes[id].children[i])]

\* The keys of the nodes handed to the last call.
ArgKeys == [i \in 1..Len(args) |-> before.nodes[args[i]].key]

\* The sequence s without its i-th element.
Without(s, i) == [j \in 1..(Len(s) - 1) |-> IF j < i THEN s[j] ELSE s[j + 1]]

----------------------------------------------------------------------------
\* C5: removeChild(key) takes out the first child with that key and nothing
\* else, the other children keeping their order; when no child has the key the
\* children are unchanged.
C5_RemoveChild ==
    op = "removeChild" =>
        LET old == ChildSnapshots(before, tgt)
            hits == {i \in 1..Len(old) : old[i].key = arg}
        IN IF hits = {}
           THEN Snapshot(Heap, E) = Snapshot(before, E)
           ELSE ChildSnapshots(Heap, tgt) = Without(old, Min(hits))

\* removeChild of the key of the second of three children.
C5_Witness ==
    /\ op = "removeChild"
    /\ GetChildrenSize(before, tgt) = 3
    /\ GetChildrenKeys(before, tgt)[1] # arg
    /\ GetChildrenKeys(before, tgt)[2] = arg
    /\ GetChildrenSize(Heap, tgt) = 2

\* C6: insert(offset, X1..Xn) with 0 <= offset <= size leaves the keys
\* old[0:offset] ++ keys of X1..Xn ++ old[offset:], the old children unchanged
\* and in order, and every inserted child with the Element's key as parent key.
C6_Insert ==
    (op = "insert" /\ arg >= 0 /\ arg <= GetChildrenSize(before, tgt)) =>
        LET old == ChildSnapshots(before, tgt)
            new == ChildSnapshots(Heap, tgt)
            n == Len(args)
        IN /\ GetChildrenKeys(Heap, tgt)
                 = SubSeq(GetChildrenKeys(before, tgt), 1, arg) \o ArgKeys
                      \o SubSeq(GetChildrenKeys(before, tgt), arg + 1, Len(old))
           /\ Len(new) = Len(old) + n
           /\ SubSeq(new, 1, arg) = SubSeq(old, 1, arg)
           /\ SubSeq(new, arg + n + 1, Len(new)) = SubSeq(old, arg + 1, Len(old))
           /\ \A i \in (arg + 1)..(arg + n) : new[i].parent = nodes[tgt].key

\* insert(1, X) between two children.
C6_Witness ==
    /\ op = "insert"
    /\ arg = 1
    /\ Len(args) = 1
    /\ GetChildrenSize(before, tgt) = 2
    /\ GetChildrenSize(Heap, tgt) = 3
    /\ GetChildrenKeys(Heap, tgt)[2] = ArgKeys[1]

\* C7 as stated: out-of-range offsets are clamped: insert with offset < 0 puts
\* the nodes first, insert with offset > size puts them last, split with
\* offset < 0 or offset > size splits at 0 or at size.
C7_OutOfRangeClamped ==
    LET old == GetChildrenKeys(before, tgt)
        now == GetChildrenKeys(Heap, tgt)
    IN /\ (op = "insert" /\ arg < 0) => now = ArgKeys \o old
       /\ (op = "insert" /\ arg > Len(old)) => now = old \o ArgKeys
       /\ (op = "split" /\ arg < 0) =>
             GetChildrenKeys(Heap, ret[1]) = <<>> /\ GetChildrenKeys(Heap, ret[2]) = old
       /\ (op = "split" /\ arg > Len(old)) =>
             GetChildrenKeys(Heap, ret[1]) = old /\ GetChildrenKeys(Heap, ret[2]) = <<>>

\* C7 as amended: split clamps; insert with offset > size puts the nodes last;
\* insert with offset < 0 counts from the end and puts the nodes at
\* max(size + offset, 0), first only when offset <= -size.
C7_OutOfRangeSplice ==
    LET old == GetChildrenKeys(before, tgt)
        now == GetChildrenKeys(Heap, tgt)
        at == IF Len(old) + arg < 0 THEN 0 ELSE Len(old) + arg
    IN /\ (op = "insert" /\ arg < 0) =>
             now = SubSeq(old, 1, at) \o ArgKeys \o SubSeq(old, at + 1, Len(old))
       /\ (op = "insert" /\ arg > Len(old)) => now = old \o ArgKeys
       /\ (op = "split" /\ arg < 0) =>
             GetChildrenKeys(Heap, ret[1]) = <<>> /\ GetChildrenKeys(Heap, ret[2]) = old
       /\ (op = "split" /\ arg > Len(old)) =>
             GetChildrenKeys(Heap, ret[1]) = old /\ GetChildrenKeys(Heap, ret[2]) = <<>>

\* insert(-1, X) on two children: X lands between them.
C7_Witness ==
    /\ op = "insert"
    /\ arg = 0 - 1
    /\ Len(args) = 1
    /\ GetChildrenSize(before, tgt) = 2
    /\ GetChildrenKeys(Heap, tgt)[2] = ArgKeys[1]
    /\ GetChildrenKeys(Heap, tgt)[1] # ArgKeys[1]

----------------------------------------------------------------------------
\* C9: contains(...K) is true exactly when some node below the Element, at any
\* depth, has a key in K; so it is false for an empty K, and false for the
\* Element's own key when nothing below carries that key.
C9_Contains ==
    op = "contains" =>
        /\ val = (\E d \in Descendants(Heap, tgt) : nodes[d].key \in arg)
        /\ arg = {} => val = FALSE
        /\ (arg = {nodes[tgt].key}
               /\ \A d \in Descendants(Heap, tgt) : nodes[d].key # nodes[tgt].key)
              => val = FALSE

\* contains is true for a key that only a grandchild carries.
C9_Witness ==
    /\ op = "contains"
    /\ val = TRUE
    /\ arg # {}
    /\ \A i \in 1..GetChildrenSize(Heap, tgt) : nodes[nodes[tgt].children[i]].key \notin arg

\* C10: matches(p) returns the nodes below the Element that satisfy p, each
\* once, in depth-first pre-order: a node before the nodes below it, and the
\* nodes below every Element child whether or not that child satisfied p.
C10_Matches ==
    op = "matches" =>
        LET order == Visit(Heap, nodes[tgt].children, <<>>)
            Holds(x) == Callback(arg, nodes[x])
        IN /\ ret = SelectSeq(order, Holds)
           /\ Range(ret) = {d \in Descendants(Heap, tgt) : Callback(arg, nodes[d])}
           /\ Cardinality(Range(ret)) = Len(ret)

\* matches returned an Element, then a node below it, then a later child.
C10_Witness ==
    /\ op = "matches"
    /\ Len(ret) = 3
    /\ ret[1] \in Range(nodes[tgt].children)
    /\ ret[2] \in Range(nodes[ret[1]].children)
    /\ ret[3] \in Range(nodes[tgt].children)

----------------------------------------------------------------------------
\* C8: the style accessors never alias the Element's style: what getStyle
\* returns now is what the accessors last exchanged with the caller (the map
\* given to setStyle, exactly, or the map an earlier getStyle returned),
\* whatever the caller has since done to the maps it holds.
C8_StyleNotAliased ==
    LET got == GetStyle(Heap, E)
    IN /\ got.H.maps[got.id] = style0
       /\ (op = "setStyle" /\ tgt = E) => maps[nodes[E].style] = arg
       /\ op = "mutateMap" => Snapshot(Heap, E) = Snapshot(before, E)
       /\ \A x \in ElementsOf(Heap, E) : nodes[x].style # m

\* The caller changed a map that held the entries of E's style (one it had given
\* to setStyle or got from getStyle), and E's style still has those entries.
C8_Witness ==
    /\ op = "mutateMap"
    /\ Len(before.maps) = 2
    /\ before.maps[2] = style0
    /\ style0 # EmptyMap
    /\ maps[m] # style0
    /\ maps[nodes[E].style] = style0

----------------------------------------------------------------------------
\* No Element at or below the node has two children with the same key.
NoDuplicateKeys(H, id) ==
    \A x \in ElementsOf(H, id) :
        \A i, j \in 1..Len(H.nodes[x].children) :
            i # j => H.nodes[H.nodes[x].children[i]].key # H.nodes[H.nodes[x].children[j]].key

\* C4: the Element rebuilt from toJSON(true), which is clone(true, true),
\* compares equal to the Element when no children share a key.
C4_RoundTrip ==
    (op = "clone" /\ arg = <<TRUE, TRUE>> /\ NoDuplicateKeys(Heap, tgt)) => val = TRUE

----------------------------------------------------------------------------
\* C11: after any sequence of appendChild, insert, removeChild, empty, split and
\* clone, every node that sits in the children of an Element carries that
\* Element's key as its parent key, at every depth of the tree and of the
\* Elements split and clone returned.
C11_ParentLink ==
    \A id \in 1..Len(nodes) :
        \A i \in 1..Len(nodes[id].children) :
            nodes[nodes[id].children[i]].parent = nodes[id].key

\* The caller holds a clone made without the key (its key is a generated one that
\* no node of the tree carries) that has a child with a child of its own.
C11_Witness ==
    /\ ~hist
    /\ Len(ret) = 1
    /\ ret[1] \notin Subtree(Heap, E)
    /\ nodes[ret[1]].key \notin CallerKeys
    /\ \A x \in Subtree(Heap, E) : nodes[x].key # nodes[ret[1]].key
    /\ \E i \in 1..Len(nodes[ret[1]].children) :
          Len(nodes[nodes[ret[1]].children[i]].children) > 0

----------------------------------------------------------------------------
\* Whether some Element of the heap has the node among its children.
Held(H, id) == \E h \in 1..Len(H.nodes) : id \in Range(H.nodes[h].children)

\* C12: a node carries a parent key exactly when some Element holds it as a
\* child: a node taken out by removeChild or empty, and a node no Element holds
\* (an Element split or clone returned among them), carries none.
C12_ParentSetIffHeld ==
    \A id \in 1..Len(nodes) : (nodes[id].parent # Null) <=> Held(Heap, id)

----------------------------------------------------------------------------
\* The places a node can sit in: the i-th child of the node h.
Slots(H) == {s \in (1..Len(H.nodes)) \X (1..MaxNodes) : s[2] <= Len(H.nodes[s[1]].children)}

\* No object is stored twice: every node sits in at most one place, and no two
\* Elements have the same style object.
NothingShared(H) ==
    /\ \A s1, s2 \in Slots(H) :
          s1 # s2 => H.nodes[s1[1]].children[s1[2]] # H.nodes[s2[1]].children[s2[2]]
    /\ \A a, b \in 1..Len(H.nodes) :
          (a # b /\ H.nodes[a].style # Null) => H.nodes[a].style # H.nodes[b].style

RECURSIVE SnapshotWith(_, _, _, _, _)
\* The snapshot of a node as it is after `extra` has been spliced into the
\* children of the node t below it at `at`, everything else staying as it is.
SnapshotWith(H, id, t, at, extra) ==
    LET n == H.nodes[id]
        kids == [i \in 1..Len(n.children) |-> SnapshotWith(H, n.children[i], t, at, extra)]
    IN [cls |-> n.cls, type |-> n.type, key |-> n.key, parent |-> n.parent,
        text |-> n.text,
        style |-> IF n.style = Null THEN EmptyMap ELSE H.maps[n.style],
        children |-> IF id = t THEN SpliceInsert(kids, at, extra) ELSE kids]

----------------------------------------------------------------------------
\* A node's snapshot without the parent key of the node itself.
Content(H, id) == [Snapshot(H, id) EXCEPT !.parent = Null]

\* C14: for Elements A and B that pass Node's comparison, have equal styles and
\* equally many children, A.compare(B) is true exactly when every child of A
\* compares equal to the first child of B that has its key; so when B's children
\* are A's children (same keys, same content) in any order, with no key twice
\* among siblings, A.compare(B) is true.
C14_CompareKeyIndexed ==
    (op = "compare" /\ IsElement(Heap, ret[1])) =>
        LET A == nodes[tgt].children
            B == nodes[ret[1]].children
        IN (/\ NodeCompare(Heap, tgt, ret[1])
            /\ maps[nodes[tgt].style] = maps[nodes[ret[1]].style]
            /\ Len(A) = Len(B))
           => /\ val[1] = \A i \in 1..Len(A) :
                             \E j \in 1..Len(B) :
                                /\ nodes[B[j]].key = nodes[A[i]].key
                                /\ \A k \in 1..(j - 1) : nodes[B[k]].key # nodes[A[i]].key
                                /\ Compare(Heap, A[i], B[j])
              /\ (/\ NoDuplicateKeys(Heap, tgt)
                  /\ \A i \in 1..Len(A) :
                        \E j \in 1..Len(B) : Content(Heap, A[i]) = Content(Heap, B[j]))
                 => val[1] = TRUE

\* Two Elements with the same two children in opposite orders, one of the
\* children an Element with a child, compared equal.
C14_Witness ==
    /\ op = "compare"
    /\ tgt = E
    /\ Len(nodes[E].children) = 2
    /\ Len(nodes[ret[1]].children) = 2
    /\ nodes[nodes[E].children[1]].key # nodes[nodes[E].children[2]].key
    /\ Len(nodes[nodes[E].children[1]].children) = 1
    /\ Content(Heap, nodes[E].children[1]) = Content(Heap, nodes[ret[1]].children[2])
    /\ Content(Heap, nodes[E].children[2]) = Content(Heap, nodes[ret[1]].children[1])
    /\ val[1] = TRUE

----------------------------------------------------------------------------
\* C15: isEmpty() is true exactly when the Element has no children or every
\* child is empty by its own isEmpty, which is to say when no leaf at any depth
\* below the Element has text; and after empty() the Element is empty and has
\* no children.
C15_IsEmptyRecursive ==
    /\ op = "isEmpty" =>
          /\ val = (\/ GetChildrenSize(Heap, tgt) = 0
                    \/ \A i \in 1..GetChildrenSize(Heap, tgt) :
                          IsEmpty(Heap, nodes[tgt].children[i]))
          /\ val = \A x \in Descendants(Heap, tgt) :
                      IsElement(Heap, x) \/ TextIsEmpty(Heap, x)
    /\ op = "empty" => (IsEmpty(Heap, tgt) /\ GetChildrenSize(Heap, tgt) = 0)

\* isEmpty answered true for an Element holding an Element that holds a leaf
\* without text.
C15_Witness ==
    /\ op = "isEmpty"
    /\ val = TRUE
    /\ \E i \in 1..GetChildrenSize(Heap, tgt) :
          LET c == nodes[tgt].children[i]
          IN /\ IsElement(Heap, c)
             /\ GetChildrenSize(Heap, c) > 0
             /\ ~IsElement(Heap, nodes[c].children[1])

----------------------------------------------------------------------------
\* C16: when no Element at or below A or B has two children with the same key,
\* A.compare(B) and B.compare(A) give the same answer.
C16_CompareSymmetric ==
    (/\ op = "compare"
     /\ IsElement(Heap, ret[1])
     /\ NoDuplicateKeys(Heap, tgt)
     /\ NoDuplicateKeys(Heap, ret[1]))
    => val[1] = val[2]

\* Two Elements without duplicate keys, each with two children under the same
\* two keys, that differ in a child and compared unequal both ways.
C16_Witness ==
    /\ op = "compare"
    /\ tgt = E
    /\ NoDuplicateKeys(Heap, E)
    /\ NoDuplicateKeys(Heap, ret[1])
    /\ Len(nodes[E].children) = 2
    /\ {nodes[x].key : x \in Range(nodes[E].children)}
          = {nodes[x].key : x \in Range(nodes[ret[1]].children)}
    /\ Cardinality({nodes[x].key : x \in Range(nodes[E].children)}) = 2
    /\ val = <<FALSE, FALSE>>

====
